---- MODULE Spec2Model ----
(***************************************************************************)
(* Model of utils/analyzeAudio.ts (src/unnamed/part_003) of YouSound:      *)
(* the upload -> submit -> poll job protocol of analyzeAudio, the metrics  *)
(* derivation of analyzeTranscript and getRepeatedWords, and the rule      *)
(* table of generateFeedback.                                              *)
(*                                                                         *)
(* Units.  Times (Word.start, Word.end, pause durations) are integers in   *)
(* tenths of a second; confidences are integers in hundredths; the audio   *)
(* duration is an integer number of seconds.  A quotient the code keeps    *)
(* as a JavaScript number (fillerRate, speakingPace, avgConfidence) is a   *)
(* fraction [num, den] with den > 0, so comparisons and Math.round are     *)
(* exact.  A string is the tuple of its character codes.                   *)
(***************************************************************************)
EXTENDS Integers, Sequences, FiniteSets, TLC

(***************************************************************************)
(* Bounds of the model.                                                    *)
(***************************************************************************)
MaxWords == 3
MaxPolls == 3

\* Recordings made on the record screen.
MaxRecordings == 3

\* Questions of an interview session, and answers recorded on the
\* interview screen.
MaxQuestions == 2

MaxAnswers == 3

(***************************************************************************)
(* Strings: String.prototype.toLowerCase, trim, length.                    *)
(***************************************************************************)
Undefined == "undefined"

toLowerCase(t) == [i \in 1..Len(t) |-> IF t[i] \in 65..90 THEN t[i] + 32 ELSE t[i]]

IsWhiteSpace(c) == c \in {9, 10, 11, 12, 13, 32}

RECURSIVE trimStart(_)
trimStart(t) ==
    IF t /= <<>> /\ IsWhiteSpace(Head(t)) THEN trimStart(Tail(t)) ELSE t

RECURSIVE trimEnd(_)
trimEnd(t) ==
    IF t /= <<>> /\ IsWhiteSpace(t[Len(t)])
    THEN trimEnd(SubSeq(t, 1, Len(t) - 1))
    ELSE t

trim(t) == trimEnd(trimStart(t))

(***************************************************************************)
(* The texts the inputs are drawn from.                                    *)
(***************************************************************************)
tI == <<73>>
tThe == <<84, 104, 101>>
tthe == <<116, 104, 101>>
tcat == <<99, 97, 116>>
tconstructor == <<99, 111, 110, 115, 116, 114, 117, 99, 116, 111, 114>>
tum == <<117, 109>>
tUmSp == <<85, 109, 32>>
tuh == <<117, 104>>
tlike == <<108, 105, 107, 101>>
tLike == <<76, 105, 107, 101>>
tbecause == <<98, 101, 99, 97, 117, 115, 101>>
tso == <<115, 111>>
tyouknow == <<121, 111, 117, 32, 107, 110, 111, 119>>
t10 == <<49, 48>>
t9 == <<57>>

COMMON_FILLERS == <<tlike, tbecause, tso, tum, tuh, tyouknow>>

(***************************************************************************)
(* Numbers: exact fractions for the code's floating-point quotients.       *)
(***************************************************************************)
Frac(n, d) == [num |-> n, den |-> d]

FracLess(a, b) == a.num * b.den < b.num * a.den

\* The quotient is truncated instead of rounded.
MathTrunc(f) == f.num \div f.den

\* Math.round of a non-negative fraction: the nearest integer, halves up.
MathRound(f) == (2 * f.num + f.den) \div (2 * f.den)

\* reduce((sum, x) => sum + x, 0), summed by halves.
RECURSIVE SumSeq(_)
SumSeq(s) ==
    IF s = <<>> THEN 0
    ELSE IF Len(s) = 1 THEN s[1]
    ELSE LET half == Len(s) \div 2
         IN  SumSeq(SubSeq(s, 1, half)) + SumSeq(SubSeq(s, half + 1, Len(s)))

(***************************************************************************)
(* A plain JavaScript object used as a string-keyed counter table          *)
(* (fillerCounts, counts): the sequence of its own entries in insertion    *)
(* order.  A value is a number, or the string that `+ 1` produces when     *)
(* the looked-up value is not a number: [isNum |-> FALSE, n |-> k] is the  *)
(* inherited function's text followed by k characters "1".                 *)
(***************************************************************************)
Num(n) == [isNum |-> TRUE, n |-> n]

\* Own property names of Object.prototype that a lower-cased text can equal.
InheritedKeys == {tconstructor}

HasOwn(obj, key) == \E i \in 1..Len(obj) : obj[i].key = key

OwnIndex(obj, key) == CHOOSE i \in 1..Len(obj) : obj[i].key = key

\* counts[key] = (counts[key] || 0) + 1
Increment(obj, key) ==
    IF HasOwn(obj, key)
    THEN LET i == OwnIndex(obj, key)
         IN  [obj EXCEPT ![i].value = [@ EXCEPT !.n = @ + 1]]
    ELSE IF key \in InheritedKeys
         THEN Append(obj, [key |-> key, value |-> [isNum |-> FALSE, n |-> 1]])
         ELSE Append(obj, [key |-> key, value |-> Num(1)])

\* A canonical array index ("0", "1", "10", ...; no leading zero).
IsArrayIndex(key) ==
    /\ key /= <<>>
    /\ \A i \in 1..Len(key) : key[i] \in 48..57
    /\ (Len(key) > 1 => key[1] /= 48)

RECURSIVE IndexValue(_)
IndexValue(key) ==
    IF key = <<>> THEN 0
    ELSE 10 * IndexValue(SubSeq(key, 1, Len(key) - 1)) + (key[Len(key)] - 48)

RECURSIVE InsertByIndex(_, _)
InsertByIndex(e, s) ==
    IF s = <<>> THEN <<e>>
    ELSE IF IndexValue(e.key) < IndexValue(Head(s).key)
         THEN <<e>> \o s
         ELSE <<Head(s)>> \o InsertByIndex(e, Tail(s))

RECURSIVE SortByIndex(_)
SortByIndex(s) == IF s = <<>> THEN <<>> ELSE InsertByIndex(Head(s), SortByIndex(Tail(s)))

IsIndexEntry(e) == IsArrayIndex(e.key)

IsNameEntry(e) == ~IsArrayIndex(e.key)

\* Object.entries: array-index keys in ascending numeric order, then the
\* other keys in insertion order.
ObjectEntries(obj) ==
    SortByIndex(SelectSeq(obj, IsIndexEntry)) \o SelectSeq(obj, IsNameEntry)

\* e.count > 1 as JavaScript evaluates it: a non-numeric string is NaN.
GreaterThanOne(v) == v.isNum /\ v.n > 1

\* b.count - a.count > 0, the comparator of both sorts; NaN counts as 0.
SortsBefore(b, a) == a.isNum /\ b.isNum /\ b.n - a.n > 0

\* Array.prototype.sort((a, b) => b.count - a.count): a stable sort.
RECURSIVE InsertSorted(_, _)
InsertSorted(e, s) ==
    IF s = <<>> THEN <<e>>
    ELSE IF SortsBefore(e.count, Head(s).count)
         THEN <<e>> \o s
         ELSE <<Head(s)>> \o InsertSorted(e, Tail(s))

RECURSIVE SortByCountDesc(_)
SortByCountDesc(s) ==
    IF s = <<>> THEN <<>>
    ELSE InsertSorted(s[Len(s)], SortByCountDesc(SubSeq(s, 1, Len(s) - 1)))

ToWordCount(e) == [word |-> e.key, count |-> e.value]

ToWordCounts(list) == [i \in 1..Len(list) |-> ToWordCount(list[i])]

(***************************************************************************)
(* analyzeTranscript, getRepeatedWords, generateFeedback.                  *)
(***************************************************************************)
Disfluency == "disfluency"

IsFiller(w) == w.type = Disfluency

IsNonFiller(w) == w.type /= Disfluency

\* fillers.forEach(...): the frequency table over lower-cased, trimmed text.
\* (The fillers are visited in order, first half before second half.)
RECURSIVE CountFillers(_, _)
CountFillers(fillers, fillerCounts) ==
    IF fillers = <<>> THEN fillerCounts
    ELSE IF Len(fillers) = 1
    THEN Increment(fillerCounts, trim(toLowerCase(fillers[1].text)))
    ELSE LET half == Len(fillers) \div 2
             sofar == CountFillers(SubSeq(fillers, 1, half), fillerCounts)
         IN  IF sofar = <<>>
             THEN CountFillers(SubSeq(fillers, half + 1, Len(fillers)), <<>>)
             ELSE CountFillers(SubSeq(fillers, half + 1, Len(fillers)), sofar)

MostUsedFillers(fillers) ==
    LET sorted == SortByCountDesc(ToWordCounts(ObjectEntries(CountFillers(fillers, <<>>))))
    IN  SubSeq(sorted, 1, IF Len(sorted) < 10 THEN Len(sorted) ELSE 10)

\* Only the words tagged as fillers are counted.
CommonFillerCountsTaggedOnly(words) ==
    [k \in 1..Len(COMMON_FILLERS) |->
        [word |-> COMMON_FILLERS[k],
         count |-> Cardinality({i \in 1..Len(words) :
                                   /\ words[i].type = Disfluency
                                   /\ toLowerCase(words[i].text) = COMMON_FILLERS[k]})]]

\* commonFillerCounts: one key per term of COMMON_FILLERS, in that order.
CommonFillerCounts(words) ==
    [k \in 1..Len(COMMON_FILLERS) |->
        [word |-> COMMON_FILLERS[k],
         count |-> Cardinality({i \in 1..Len(words) :
                                   toLowerCase(words[i].text) = COMMON_FILLERS[k]})]]

\* A confidence of exactly 0.6 is flagged too.
HasPronunciationIssueInclusive(w) == w.confidence <= 60 /\ w.type /= Disfluency

HasPronunciationIssue(w) == w.confidence < 60 /\ w.type /= Disfluency

ToIssue(w) == [word |-> w.text, confidence |-> w.confidence]

ToIssues(list) == [i \in 1..Len(list) |-> ToIssue(list[i])]

PronunciationIssues(words) == ToIssues(SelectSeq(words, HasPronunciationIssue))

\* pauseDuration >= 2.5
IsLongPauseInclusive(pauseDuration) == pauseDuration >= 25

\* pauseDuration > 2.5
IsLongPause(pauseDuration) == pauseDuration > 25

\* for (let i = 1; i < words.length; i++) { ... longPauses.push(...) }:
\* the records pushed for the pairs ending at the words lo..hi, in order.
RECURSIVE LongPausesFrom(_, _, _)
LongPausesFrom(words, lo, hi) ==
    IF lo > hi THEN <<>>
    ELSE IF lo = hi
    THEN LET prevWord == words[lo - 1]
             currentWord == words[lo]
             pauseDuration == currentWord.start - prevWord.end
         IN  IF IsLongPause(pauseDuration)
             THEN <<[start |-> prevWord.end,
                     end |-> currentWord.start,
                     duration |-> pauseDuration]>>
             ELSE <<>>
    ELSE LET mid == (lo + hi) \div 2
         IN  LongPausesFrom(words, lo, mid) \o LongPausesFrom(words, mid + 1, hi)

\* The records are kept newest first.
LongPausesNewestFirst(words) ==
    LET longPauses == LongPausesFrom(words, 2, Len(words))
    IN  [k \in 1..Len(longPauses) |-> longPauses[Len(longPauses) + 1 - k]]

LongPauses(words) == LongPausesFrom(words, 2, Len(words))

\* transcript.audio_duration || 1
TotalDurationSeconds(transcript) ==
    IF transcript.audio_duration = 0 THEN 1 ELSE transcript.audio_duration

ConfidenceOf(w) == w.confidence

ConfidencesOf(list) == [i \in 1..Len(list) |-> ConfidenceOf(list[i])]

\* The average defaults to full confidence when there is no spoken word.
AvgConfidenceDefaultsToOne(words) ==
    LET nonFillerWords == SelectSeq(words, IsNonFiller)
    IN  IF Len(nonFillerWords) > 0
        THEN Frac(SumSeq(ConfidencesOf(nonFillerWords)), 100 * Len(nonFillerWords))
        ELSE Frac(1, 1)

\* The average is taken over every word, fillers included.
AvgConfidenceAllWords(words) ==
    IF Len(words) > 0
    THEN Frac(SumSeq(ConfidencesOf(words)), 100 * Len(words))
    ELSE Frac(0, 1)

\* nonFillerWords.length > 0 ? sum / length : 0, as a fraction of 1.
AvgConfidence(words) ==
    LET nonFillerWords == SelectSeq(words, IsNonFiller)
    IN  IF Len(nonFillerWords) > 0
        THEN Frac(SumSeq(ConfidencesOf(nonFillerWords)), 100 * Len(nonFillerWords))
        ELSE Frac(0, 1)

\* The pace is taken per second instead of per minute.
SpeakingPacePerSecond(words, totalDurationSeconds) ==
    Frac(Len(SelectSeq(words, IsNonFiller)), totalDurationSeconds)

\* totalWords / totalDurationMinutes
SpeakingPace(words, totalDurationSeconds) ==
    Frac(60 * Len(SelectSeq(words, IsNonFiller)), totalDurationSeconds)

\* fillers.length / totalDurationMinutes
FillerRate(fillers, totalDurationSeconds) ==
    Frac(60 * Len(fillers), totalDurationSeconds)

Times10(f) == Frac(10 * f.num, f.den)

Times100(f) == Frac(100 * f.num, f.den)

(***************************************************************************)
(* generateFeedback.  A message is its fixed text with the words and the   *)
(* numbers interpolated into it.                                           *)
(***************************************************************************)
Msg(text, words, nums) == [text |-> text, words |-> words, nums |-> nums]

WordOf(e) == e.word

WordsOf(list) == [i \in 1..Len(list) |-> WordOf(list[i])]

CountOf(e) == e.count

CountsOf(list) == [i \in 1..Len(list) |-> CountOf(list[i])]

\* The flagged words keep their case.
IssueWordAsSpoken(i) == i.word

IssueWordLower(i) == toLowerCase(i.word)

IssueWordsLower(list) == [i \in 1..Len(list) |-> IssueWordLower(list[i])]

IsUsed(e) == e.count > 0

\* Array.from(new Set(list)): first occurrences, in order.
RECURSIVE Unique(_, _)
Unique(list, seen) ==
    IF list = <<>> THEN seen
    ELSE Unique(Tail(list),
                IF \E i \in 1..Len(seen) : seen[i] = Head(list)
                THEN seen ELSE Append(seen, Head(list)))

\* A rate of exactly 5 still counts as mild.
FillerRateRuleUpToFive(metrics) ==
    IF FracLess(metrics.fillerRate, Frac(2, 1))
    THEN [feedback |-> <<Msg("Excellent! Very few filler words detected.", <<>>, <<>>)>>,
          recommendations |-> <<>>]
    ELSE IF ~FracLess(Frac(5, 1), metrics.fillerRate)
    THEN [feedback |-> <<Msg("Good control of filler words, but there's room for improvement.", <<>>, <<>>)>>,
          recommendations |-> <<Msg("Practice pausing instead of using filler words when you need time to think.", <<>>, <<>>)>>]
    ELSE [feedback |-> <<Msg("High filler word usage detected. This may distract your audience.",
                             <<>>, <<metrics.fillerRate.num, metrics.fillerRate.den>>)>>,
          recommendations |-> <<Msg("Record yourself regularly and become aware of your filler word patterns.", <<>>, <<>>),
                                Msg("Practice speaking more slowly and deliberately.", <<>>, <<>>)>>]

FillerRateRule(metrics) ==
    IF FracLess(metrics.fillerRate, Frac(2, 1))
    THEN [feedback |-> <<Msg("Excellent! Very few filler words detected.", <<>>, <<>>)>>,
          recommendations |-> <<>>]
    ELSE IF FracLess(metrics.fillerRate, Frac(5, 1))
    THEN [feedback |-> <<Msg("Good control of filler words, but there's room for improvement.", <<>>, <<>>)>>,
          recommendations |-> <<Msg("Practice pausing instead of using filler words when you need time to think.", <<>>, <<>>)>>]
    ELSE [feedback |-> <<Msg("High filler word usage detected. This may distract your audience.",
                             <<>>, <<metrics.fillerRate.num, metrics.fillerRate.den>>)>>,
          recommendations |-> <<Msg("Record yourself regularly and become aware of your filler word patterns.", <<>>, <<>>),
                                Msg("Practice speaking more slowly and deliberately.", <<>>, <<>>)>>]

TopFillerRule(metrics) ==
    IF Len(metrics.mostUsedFillers) > 0
    THEN LET topFiller == metrics.mostUsedFillers[1]
         IN  [feedback |-> <<Msg("Your most used filler word is", <<topFiller.word>>, <<topFiller.count.n>>)>>,
              recommendations |-> <<Msg("Be especially mindful of saying - try replacing it with a brief pause.",
                                        <<topFiller.word>>, <<>>)>>]
    ELSE [feedback |-> <<>>, recommendations |-> <<>>]

CommonFillerRule(metrics) ==
    LET usedFillers == SelectSeq(metrics.commonFillerCounts, IsUsed)
    IN  IF Len(usedFillers) > 0
        THEN [feedback |-> <<Msg("You used common filler words. Try to reduce them for clearer speech.",
                                 WordsOf(usedFillers), CountsOf(usedFillers))>>,
              recommendations |-> <<Msg("Practice pausing instead of using common filler words.", <<>>, <<>>)>>]
        ELSE [feedback |-> <<>>, recommendations |-> <<>>]

\* A pace of exactly 120 counts as slow.
SpeakingPaceRuleSlowAt120(metrics) ==
    IF ~FracLess(Frac(120, 1), metrics.speakingPace)
    THEN [feedback |-> <<Msg("Your speaking pace is quite slow. Consider speaking a bit faster to maintain engagement.", <<>>, <<>>)>>,
          recommendations |-> <<Msg("Practice speaking at 150-160 words per minute for optimal clarity and engagement.", <<>>, <<>>)>>]
    ELSE IF FracLess(Frac(200, 1), metrics.speakingPace)
    THEN [feedback |-> <<Msg("You're speaking quite fast. Slow down to ensure clarity and comprehension.", <<>>, <<>>)>>,
          recommendations |-> <<Msg("Take deliberate pauses between sentences to give your audience time to process.", <<>>, <<>>)>>]
    ELSE [feedback |-> <<Msg("Your speaking pace is in a good range for clear communication.", <<>>, <<>>)>>,
          recommendations |-> <<>>]

SpeakingPaceRule(metrics) ==
    IF FracLess(metrics.speakingPace, Frac(120, 1))
    THEN [feedback |-> <<Msg("Your speaking pace is quite slow. Consider speaking a bit faster to maintain engagement.", <<>>, <<>>)>>,
          recommendations |-> <<Msg("Practice speaking at 150-160 words per minute for optimal clarity and engagement.", <<>>, <<>>)>>]
    ELSE IF FracLess(Frac(200, 1), metrics.speakingPace)
    THEN [feedback |-> <<Msg("You're speaking quite fast. Slow down to ensure clarity and comprehension.", <<>>, <<>>)>>,
          recommendations |-> <<Msg("Take deliberate pauses between sentences to give your audience time to process.", <<>>, <<>>)>>]
    ELSE [feedback |-> <<Msg("Your speaking pace is in a good range for clear communication.", <<>>, <<>>)>>,
          recommendations |-> <<>>]

\* The recommendations are added from exactly two pauses per minute on.
PauseRuleAtTwicePerMinute(metrics) ==
    IF Len(metrics.longPauses) > 0
    THEN [feedback |-> <<Msg("long pause(s) detected. Some pauses can be effective, but too many may indicate hesitation.",
                             <<>>, <<Len(metrics.longPauses)>>)>>,
          recommendations |->
              IF ~FracLess(Frac(Len(metrics.longPauses), 1), Frac(metrics.totalDurationSeconds, 30))
              THEN <<Msg("Prepare your content more thoroughly to reduce hesitation pauses.", <<>>, <<>>),
                     Msg("Practice your presentation multiple times to improve flow.", <<>>, <<>>)>>
              ELSE <<>>]
    ELSE [feedback |-> <<Msg("Good flow with appropriate pausing.", <<>>, <<>>)>>,
          recommendations |-> <<>>]

\* totalDurationMinutes * 2 = totalDurationSeconds / 30
PauseRule(metrics) ==
    IF Len(metrics.longPauses) > 0
    THEN [feedback |-> <<Msg("long pause(s) detected. Some pauses can be effective, but too many may indicate hesitation.",
                             <<>>, <<Len(metrics.longPauses)>>)>>,
          recommendations |->
              IF FracLess(Frac(metrics.totalDurationSeconds, 30), Frac(Len(metrics.longPauses), 1))
              THEN <<Msg("Prepare your content more thoroughly to reduce hesitation pauses.", <<>>, <<>>),
                     Msg("Practice your presentation multiple times to improve flow.", <<>>, <<>>)>>
              ELSE <<>>]
    ELSE [feedback |-> <<Msg("Good flow with appropriate pausing.", <<>>, <<>>)>>,
          recommendations |-> <<>>]

\* An average of exactly 0.6 still counts as generally clear.
ConfidenceRuleFromSixTenths(metrics) ==
    IF FracLess(Frac(8, 10), metrics.avgConfidence)
    THEN [feedback |-> <<Msg("Clear articulation detected - your speech is easy to understand.", <<>>, <<>>)>>,
          recommendations |-> <<>>]
    ELSE IF ~FracLess(metrics.avgConfidence, Frac(6, 10))
    THEN [feedback |-> <<Msg("Generally clear speech with some areas for improvement.", <<>>, <<>>)>>,
          recommendations |-> <<Msg("Speak more clearly and ensure proper pronunciation of key words.", <<>>, <<>>)>>]
    ELSE [feedback |-> <<Msg("Consider speaking more clearly - some words may be difficult to understand.", <<>>, <<>>)>>,
          recommendations |-> <<Msg("Practice articulation exercises and speak more slowly.", <<>>, <<>>)>>]

ConfidenceRule(metrics) ==
    IF FracLess(Frac(8, 10), metrics.avgConfidence)
    THEN [feedback |-> <<Msg("Clear articulation detected - your speech is easy to understand.", <<>>, <<>>)>>,
          recommendations |-> <<>>]
    ELSE IF FracLess(Frac(6, 10), metrics.avgConfidence)
    THEN [feedback |-> <<Msg("Generally clear speech with some areas for improvement.", <<>>, <<>>)>>,
          recommendations |-> <<Msg("Speak more clearly and ensure proper pronunciation of key words.", <<>>, <<>>)>>]
    ELSE [feedback |-> <<Msg("Consider speaking more clearly - some words may be difficult to understand.", <<>>, <<>>)>>,
          recommendations |-> <<Msg("Practice articulation exercises and speak more slowly.", <<>>, <<>>)>>]

PronunciationRule(metrics) ==
    IF Len(metrics.pronunciationIssues) > 0
    THEN LET uniqueIssues == Unique(IssueWordsLower(metrics.pronunciationIssues), <<>>)
         IN  [feedback |-> <<Msg("Potential pronunciation issues detected on words:", uniqueIssues, <<>>)>>,
              recommendations |-> <<Msg("Work on clear articulation and pronunciation, especially these words.", <<>>, <<>>),
                                    Msg("Record yourself and compare to native speakers.", <<>>, <<>>)>>]
    ELSE [feedback |-> <<>>, recommendations |-> <<>>]

GeneralRecommendations ==
    <<Msg("Record yourself regularly to track improvement over time.", <<>>, <<>>),
      Msg("Practice in front of a mirror or with friends for feedback.", <<>>, <<>>)>>

\* The two general recommendations are pushed before the rules run.
generateFeedbackGeneralFirst(metrics) ==
    LET r1 == FillerRateRule(metrics)
        r2 == TopFillerRule(metrics)
        r3 == CommonFillerRule(metrics)
        r4 == SpeakingPaceRule(metrics)
        r5 == PauseRule(metrics)
        r6 == ConfidenceRule(metrics)
        r7 == PronunciationRule(metrics)
    IN  [feedback |-> r1.feedback \o r2.feedback \o r3.feedback \o r4.feedback
                        \o r5.feedback \o r6.feedback \o r7.feedback,
         recommendations |-> GeneralRecommendations \o r1.recommendations \o r2.recommendations \o r3.recommendations
                               \o r4.recommendations \o r5.recommendations
                               \o r6.recommendations \o r7.recommendations]

generateFeedback(metrics) ==
    LET r1 == FillerRateRule(metrics)
        r2 == TopFillerRule(metrics)
        r3 == CommonFillerRule(metrics)
        r4 == SpeakingPaceRule(metrics)
        r5 == PauseRule(metrics)
        r6 == ConfidenceRule(metrics)
        r7 == PronunciationRule(metrics)
    IN  [feedback |-> r1.feedback \o r2.feedback \o r3.feedback \o r4.feedback
                        \o r5.feedback \o r6.feedback \o r7.feedback,
         recommendations |-> r1.recommendations \o r2.recommendations \o r3.recommendations
                               \o r4.recommendations \o r5.recommendations
                               \o r6.recommendations \o r7.recommendations
                               \o GeneralRecommendations]

analyzeTranscript(transcript) ==
    LET words == transcript.words
        totalDurationSeconds == TotalDurationSeconds(transcript)
        fillers == SelectSeq(words, IsFiller)
        mostUsedFillers == MostUsedFillers(fillers)
        commonFillerCounts == CommonFillerCounts(words)
        pronunciationIssues == PronunciationIssues(words)
        longPauses == LongPauses(words)
        speakingPace == SpeakingPace(words, totalDurationSeconds)
        avgConfidence == AvgConfidence(words)
        fillerRate == FillerRate(fillers, totalDurationSeconds)
        feedbackData == generateFeedback([totalFillers |-> Len(fillers),
                                          fillerRate |-> fillerRate,
                                          longPauses |-> longPauses,
                                          speakingPace |-> speakingPace,
                                          avgConfidence |-> avgConfidence,
                                          totalDurationSeconds |-> totalDurationSeconds,
                                          mostUsedFillers |-> mostUsedFillers,
                                          commonFillerCounts |-> commonFillerCounts,
                                          pronunciationIssues |-> pronunciationIssues])
    IN  [totalFillers |-> Len(fillers),
         fillerRate |-> MathRound(Times10(fillerRate)),
         mostUsedFillers |-> mostUsedFillers,
         commonFillerCounts |-> commonFillerCounts,
         longPauses |-> longPauses,
         speakingPace |-> MathRound(speakingPace),
         confidenceScore |-> MathRound(Times100(avgConfidence)),
         pronunciationIssues |-> pronunciationIssues,
         feedback |-> feedbackData.feedback,
         recommendations |-> feedbackData.recommendations,
         fillers |-> fillers]

\* words.forEach(...): counts of the lower-cased non-filler texts longer
\* than one character (words visited in order, first half before second).
RECURSIVE CountWords(_, _)
CountWords(words, counts) ==
    IF words = <<>> THEN counts
    ELSE IF Len(words) = 1
    THEN LET w == words[1]
             wtext == toLowerCase(w.text)
         IN  IF w.type /= Disfluency /\ Len(wtext) > 1
             THEN Increment(counts, wtext)
             ELSE counts
    ELSE LET half == Len(words) \div 2
             sofar == CountWords(SubSeq(words, 1, half), counts)
         IN  IF sofar = <<>>
             THEN CountWords(SubSeq(words, half + 1, Len(words)), <<>>)
             ELSE CountWords(SubSeq(words, half + 1, Len(words)), sofar)

IsRepeated(e) == GreaterThanOne(e.value)

getRepeatedWords(words) ==
    SortByCountDesc(ToWordCounts(
                           SelectSeq(ObjectEntries(CountWords(words, <<>>)), IsRepeated)))

(***************************************************************************)
(* Inputs: the transcripts a `completed` poll response can carry.  Words   *)
(* are chronological: each starts at the previous word's end plus a gap    *)
(* and lasts half a second.                                                *)
(***************************************************************************)
Choice(text, type, confidence, gap) ==
    [text |-> text, type |-> type, confidence |-> confidence, gap |-> gap]

RECURSIVE BuildWords(_, _)
BuildWords(choices, prevEnd) ==
    IF choices = <<>> THEN <<>>
    ELSE LET c == Head(choices)
             start == prevEnd + c.gap
         IN  <<[text |-> c.text, start |-> start, end |-> start + 5,
                confidence |-> c.confidence, type |-> c.type]>>
             \o BuildWords(Tail(choices), start + 5)

SeqsUpTo(S, n) == UNION {[1..k -> S] : k \in 0..n}

TextOf(w) == w.text

TextsOf(list) == [i \in 1..Len(list) |-> TextOf(list[i])]

Transcript(words, duration) ==
    [status |-> "completed", text |-> TextsOf(words), words |-> words,
     audio_duration |-> duration, utterances |-> <<>>, highlights |-> <<>>,
     error |-> Undefined]

\* Spoken and filler words that differ in text only.
TextChoices ==
    {Choice(t, Undefined, 90, 0) : t \in {tI, tThe, tthe, tconstructor}}
        \cup {Choice(t, Disfluency, 90, 0) : t \in {tum, tUmSp}}

\* Spoken words that differ in the gap before them only.
GapChoices == {Choice(tcat, Undefined, 90, g) : g \in {0, 24, 25, 26, 30}}

\* Spoken words that differ in confidence only, and a filler of low
\* confidence.
ConfidenceChoices ==
    {Choice(tcat, Undefined, c, 0) : c \in {59, 60, 61, 90}}
        \cup {Choice(tum, Disfluency, 10, 0)}

\* Spoken words of low confidence that differ in text or in case, and one
\* of high confidence.
PronunciationChoices ==
    {Choice(t, Undefined, 59, 0) : t \in {tThe, tthe, tcat}}
        \cup {Choice(tcat, Undefined, 90, 0)}

\* One filler and one spoken word, heard in recordings of 8 s, 12 s, 30 s
\* and 80 s.
RateChoices == {Choice(tum, Disfluency, 90, 0), Choice(tcat, Undefined, 90, 0)}

\* Fillers that differ in text only, one of them a text of digits.
FillerChoices == {Choice(t, Disfluency, 90, 0) : t \in {tum, tuh, t10}}

\* Spoken words with any start among 0 s, 3 s and 6 s, short or 4 s long:
\* sequences of them overlap, or are out of chronological order.
TimedWords ==
    {[text |-> tcat, start |-> st, end |-> st + d, confidence |-> 90, type |-> Undefined] :
        st \in {0, 30, 60}, d \in {5, 40}}

\* k equal back-to-back words, each a fifth of a second long.
Run(k, text, confidence) ==
    [i \in 1..k |-> [text |-> text, start |-> 2 * (i - 1), end |-> 2 * i,
                     confidence |-> confidence, type |-> Undefined]]

\* Six seconds of fast speech: 110, 120, 200 and 210 words per minute.
PaceTranscripts == {Transcript(Run(k, tcat, 90), 6) : k \in {11, 12, 20, 21}}

\* One minute of 120 spoken words of confidence 0.95 with no gap, the
\* first of which is a word of its own.
MinuteTranscripts ==
    {Transcript([i \in 1..120 |->
                    [text |-> IF i = 1 THEN t ELSE tcat, start |-> 5 * (i - 1), end |-> 5 * i,
                     confidence |-> 95, type |-> Undefined]], 60) :
        t \in {tcat, tso, tLike}}

Transcripts ==
    {Transcript(BuildWords(cs, 0), 60) : cs \in SeqsUpTo(TextChoices, MaxWords)}
        \cup {Transcript(BuildWords(cs, 0), 30) : cs \in SeqsUpTo(GapChoices, MaxWords)}
        \cup {Transcript(<<>>, 0)}
        \cup {Transcript(BuildWords(cs, 0), 60) : cs \in SeqsUpTo(ConfidenceChoices, MaxWords)}
        \cup {Transcript(BuildWords(cs, 0), 60) : cs \in SeqsUpTo(PronunciationChoices, MaxWords)}
        \cup {Transcript(BuildWords(cs, 0), d) : cs \in SeqsUpTo(RateChoices, MaxWords), d \in {8, 12, 30, 80}}
        \cup {Transcript(BuildWords(cs, 0), 60) : cs \in SeqsUpTo(FillerChoices, MaxWords)}
        \cup {Transcript(ws, 30) : ws \in SeqsUpTo(TimedWords, MaxWords)}
        \cup PaceTranscripts
        \cup MinuteTranscripts

(***************************************************************************)
(* analyzeAudio: the state between two awaits.                             *)
(***************************************************************************)
VARIABLES
    pc,            \* the await analyzeAudio is suspended at, or "done"
    audioUrl,      \* uploadData.upload_url
    transcriptId,  \* transcriptData.id
    polls,         \* number of GET /transcript/{id} requests issued
    responses,     \* every poll response received, in order
    failedPolls,   \* number of poll requests that threw
    caught,        \* the error the catch block logged
    ret,           \* the value the promise resolved to
    outstanding,   \* the requests sent and not yet settled
    answered,      \* the requests whose response was received
    delays,        \* number of 2 s delays that elapsed
    calls,         \* two concurrent invocations: the locals of each
    service,       \* the uploads and jobs the remote service holds for them
    screen,        \* the state of the record screen
    interview      \* the state of the interview screen

vars == <<pc, audioUrl, transcriptId, polls, responses, failedPolls, caught, ret,
          outstanding, answered, delays, calls, service, screen, interview>>

\* The state of one invocation followed on its own.
invocation == <<pc, audioUrl, transcriptId, polls, responses, failedPolls, caught, ret,
                outstanding, answered, delays>>

\* The state that one invocation followed on its own leaves alone.
others == <<calls, service, screen, interview>>

\* Nothing else is running.
NoOthers ==
    /\ calls = <<>>
    /\ service = <<>>
    /\ screen = <<>>
    /\ interview = <<>>

\* A request of the invocation; polls are numbered from 1.
Request(kind, n) == [kind |-> kind, n |-> n]

Pending == [kind |-> "pending"]

Null == [kind |-> "null"]

NoError == [name |-> "none", message |-> Undefined, at |-> "none"]

\* A rejected fetch / uploadAsync, or a body that does not parse.
NetworkFailure(at) == [name |-> "TypeError", message |-> "Network request failed", at |-> at]

\* new Error(data.error)
JobError(data) == [name |-> "Error", message |-> data.error, at |-> "poll"]

\* Steps 4-7: the object analyzeAudio returns.
Result(transcript) ==
    LET analysis == analyzeTranscript(transcript)
    IN  [kind |-> "result",
         text |-> transcript.text,
         words |-> transcript.words,
         fillers |-> analysis.fillers,
         utterances |-> transcript.utterances,
         highlights |-> transcript.highlights,
         repeatedWords |-> getRepeatedWords(transcript.words),
         analysis |-> analysis]

\* The catch block answers with the analysis of an empty transcript.
CatchReturnFallback(error) == Result(Transcript(<<>>, 0))

\* catch (error) { console.error(...); return null; }
CatchReturn(error) == Null

Catch(error) ==
    /\ caught' = error
    /\ ret' = CatchReturn(error)
    /\ pc' = "done"

\* The loop tests a status the service never sends and so never breaks.
PollOutcomeNeverBreaks(data) ==
    IF data.status = "complete" THEN "break"
    ELSE IF data.status = "error" THEN "throw"
    ELSE "continue"

\* Only `queued` and `processing` keep the loop going; any other response
\* that is not `completed` is thrown.
PollOutcomeThrowsUnknown(data) ==
    IF data.status = "completed" THEN "break"
    ELSE IF data.status \in {"queued", "processing"} THEN "continue"
    ELSE "throw"

\* The loop treats `error` like a status still in progress.
PollOutcomeRetriesError(data) ==
    IF data.status = "completed" THEN "break" ELSE "continue"

\* The branch the polling loop takes on a response.
PollOutcome(data) ==
    IF data.status = "completed" THEN "break"
    ELSE IF data.status = "error" THEN "throw"
    ELSE "continue"

StatusOnly(status, error) ==
    [status |-> status, text |-> <<>>, words |-> <<>>, audio_duration |-> 0,
     utterances |-> <<>>, highlights |-> <<>>, error |-> error]

\* What GET /transcript/{id} can answer: for a job of the service its
\* status; for no job, or on a service-side error, a body with no status.
PollResponses(id) ==
    IF id = Undefined
    THEN {StatusOnly(Undefined, "Transcript lookup error")}
    ELSE {StatusOnly("queued", Undefined), StatusOnly("processing", Undefined),
          StatusOnly(Undefined, "Internal server error"),
          StatusOnly("error", "Transcoding failed")}
             \cup Transcripts

\* analyzeAudio was entered and has awaited nothing yet.
Entered ==
    /\ pc = "start"
    /\ audioUrl = Undefined
    /\ transcriptId = Undefined
    /\ polls = 0
    /\ responses = <<>>
    /\ failedPolls = 0
    /\ caught = NoError
    /\ ret = Pending
    /\ outstanding = {}
    /\ answered = {}
    /\ delays = 0

Init == NoOthers /\ Entered

\* The same answers with fewer transcripts among them, for the unbounded
\* loop, where what a `completed` response carries makes no difference.
LoopResponses(id) ==
    IF id = Undefined
    THEN {StatusOnly(Undefined, "Transcript lookup error")}
    ELSE {StatusOnly("queued", Undefined), StatusOnly("processing", Undefined),
          StatusOnly(Undefined, "Internal server error"),
          StatusOnly("error", "Transcoding failed"),
          Transcript(<<>>, 0)}
             \cup PaceTranscripts

\* Step 1: FileSystem.uploadAsync is called.
Upload ==
    /\ pc = "start"
    /\ pc' = "uploading"
    /\ outstanding' = outstanding \cup {Request("upload", 0)}
    /\ UNCHANGED <<audioUrl, transcriptId, polls, responses, failedPolls, caught, ret>>
    /\ UNCHANGED <<answered, delays>>
    /\ UNCHANGED others

\* The upload answered; Step 2: POST /transcript is sent.
UploadResponds ==
    /\ pc = "uploading"
    /\ \E upload_url \in {"https://cdn.assemblyai.com/upload/1", Undefined} :
          audioUrl' = upload_url
    /\ pc' = "submitting"
    /\ answered' = answered \cup {Request("upload", 0)}
    /\ outstanding' = (outstanding \ {Request("upload", 0)}) \cup {Request("submit", 0)}
    /\ UNCHANGED <<transcriptId, polls, responses, failedPolls, caught, ret, delays>>
    /\ UNCHANGED others

UploadThrows ==
    /\ pc = "uploading"
    /\ Catch(NetworkFailure("upload"))
    /\ outstanding' = outstanding \ {Request("upload", 0)}
    /\ UNCHANGED <<audioUrl, transcriptId, polls, responses, failedPolls, answered, delays>>
    /\ UNCHANGED others

\* The submit answered; Step 3: the first poll is sent.  Without an
\* audio_url the service creates no job and its answer has no id.
SubmitResponds ==
    /\ pc = "submitting"
    /\ \E id \in (IF audioUrl = Undefined THEN {Undefined} ELSE {"job-1", Undefined}) :
          transcriptId' = id
    /\ polls' = 1
    /\ pc' = "polling"
    /\ answered' = answered \cup {Request("submit", 0)}
    /\ outstanding' = (outstanding \ {Request("submit", 0)}) \cup {Request("poll", 1)}
    /\ UNCHANGED <<audioUrl, responses, failedPolls, caught, ret, delays>>
    /\ UNCHANGED others

SubmitThrows ==
    /\ pc = "submitting"
    /\ Catch(NetworkFailure("submit"))
    /\ outstanding' = outstanding \ {Request("submit", 0)}
    /\ UNCHANGED <<audioUrl, transcriptId, polls, responses, failedPolls, answered, delays>>
    /\ UNCHANGED others

\* The history of the unbounded loop: the last MaxPolls responses.
KeepLast(history, data) ==
    IF Len(history) < MaxPolls THEN Append(history, data)
    ELSE Append(Tail(history), data)

\* A poll answered; `sliding` says how the response joins the history.
PollRespondsInto(sliding) ==
    /\ pc = "polling"
    /\ \E data \in (IF sliding THEN LoopResponses(transcriptId)
                                 ELSE PollResponses(transcriptId)) :
          /\ responses' = IF sliding THEN KeepLast(responses, data) ELSE Append(responses, data)
          /\ CASE PollOutcome(data) = "break" ->
                    /\ ret' = Result(data)
                    /\ pc' = "done"
                    /\ UNCHANGED caught
               [] PollOutcome(data) = "throw" ->
                    Catch(JobError(data))
               [] OTHER ->
                    /\ pc' = "sleeping"
                    /\ UNCHANGED <<caught, ret>>
    /\ answered' = answered \cup {Request("poll", polls)}
    /\ outstanding' = outstanding \ {Request("poll", polls)}
    /\ UNCHANGED <<audioUrl, transcriptId, polls, failedPolls, delays>>
    /\ UNCHANGED others

PollResponds == PollRespondsInto(FALSE)

PollThrows ==
    /\ pc = "polling"
    /\ failedPolls' = failedPolls + 1
    /\ Catch(NetworkFailure("poll"))
    /\ outstanding' = outstanding \ {Request("poll", polls)}
    /\ UNCHANGED <<audioUrl, transcriptId, polls, responses, answered, delays>>
    /\ UNCHANGED others

\* setTimeout(resolve, 2000) fired: the next poll is sent.
NextPoll ==
    /\ pc = "sleeping"
    /\ polls < MaxPolls
    /\ polls' = polls + 1
    /\ delays' = delays + 1
    /\ pc' = "polling"
    /\ outstanding' = outstanding \cup {Request("poll", polls + 1)}
    /\ UNCHANGED <<audioUrl, transcriptId, responses, failedPolls, caught, ret, answered>>
    /\ UNCHANGED others

Next ==
    \/ Upload
    \/ UploadResponds
    \/ UploadThrows
    \/ SubmitResponds
    \/ SubmitThrows
    \/ PollResponds
    \/ PollThrows
    \/ NextPoll

Spec == Init /\ [][Next]_vars

(***************************************************************************)
(* The same program with the polling loop left unbounded, as in the code:  *)
(* `polls` stops counting at MaxPolls and `responses` keeps the last       *)
(* MaxPolls responses.  Every await of the program settles (a request is   *)
(* answered or throws, the timer fires), hence the weak fairness.          *)
(***************************************************************************)
PollRespondsAgain == PollRespondsInto(TRUE)

NextPollAgain ==
    /\ pc = "sleeping"
    /\ polls' = IF polls < MaxPolls THEN polls + 1 ELSE polls
    /\ delays' = IF delays < MaxPolls THEN delays + 1 ELSE delays
    /\ pc' = "polling"
    /\ outstanding' = outstanding \cup {Request("poll", polls')}
    /\ UNCHANGED <<audioUrl, transcriptId, responses, failedPolls, caught, ret, answered>>
    /\ UNCHANGED others

LiveNext ==
    \/ Upload
    \/ UploadResponds
    \/ UploadThrows
    \/ SubmitResponds
    \/ SubmitThrows
    \/ PollRespondsAgain
    \/ PollThrows
    \/ NextPollAgain

LiveSpec == Init /\ [][LiveNext]_vars /\ WF_vars(LiveNext)

(***************************************************************************)
(* Two invocations of analyzeAudio that run concurrently, one per          *)
(* recording.  Each has its own locals (every binding of analyzeAudio is   *)
(* a const or let of the call); the remote service keeps the uploaded      *)
(* audio under the URL it answered and the jobs in order of submission.    *)
(***************************************************************************)
Invocations == {1, 2}

UploadUrls == <<"https://cdn.assemblyai.com/upload/1", "https://cdn.assemblyai.com/upload/2">>

JobIds == <<"job-1", "job-2">>

\* What the service transcribes the recording of invocation c to.
AudioTranscript(c) ==
    IF c = 1
    THEN Transcript(BuildWords(<<Choice(tcat, Undefined, 90, 0)>>, 0), 60)
    ELSE Transcript(BuildWords(<<Choice(tum, Disfluency, 90, 0),
                                 Choice(tthe, Undefined, 59, 0)>>, 0), 60)

EnteredCall ==
    [pc |-> "start", audioUrl |-> Undefined, transcriptId |-> Undefined, polls |-> 0,
     polled |-> {}, caught |-> NoError, ret |-> Pending]

\* The recording stored under a URL (0 when there is none).
AudioAt(url) ==
    IF \E k \in 1..Len(service.uploads) : UploadUrls[k] = url
    THEN service.uploads[CHOOSE k \in 1..Len(service.uploads) : UploadUrls[k] = url]
    ELSE 0

\* The job with an id (0 when there is none).
JobOf(id) ==
    IF \E k \in 1..Len(service.jobs) : JobIds[k] = id
    THEN CHOOSE k \in 1..Len(service.jobs) : JobIds[k] = id
    ELSE 0

\* The id is a variable of the module, which the latest submit overwrote.
PolledIdShared(c) ==
    IF service.jobs = <<>> THEN Undefined ELSE JobIds[Len(service.jobs)]

\* `/v2/transcript/${transcriptId}`: the id the invocation polls.
PolledId(c) == calls[c].transcriptId

\* What GET /transcript/{id} can answer an invocation.
PollResponsesOf(id) ==
    IF JobOf(id) = 0
    THEN {StatusOnly(Undefined, "Transcript lookup error")}
    ELSE {StatusOnly("processing", Undefined), StatusOnly("error", "Transcoding failed"),
          AudioTranscript(service.jobs[JobOf(id)].audio)}

CatchOf(c, error) ==
    calls' = [calls EXCEPT ![c].caught = error, ![c].ret = CatchReturn(error), ![c].pc = "done"]

ConcurrentInit ==
    /\ Entered
    /\ calls = [c \in Invocations |-> EnteredCall]
    /\ service = [uploads |-> <<>>, jobs |-> <<>>]
    /\ screen = <<>>
    /\ interview = <<>>

UploadOf(c) ==
    /\ calls[c].pc = "start"
    /\ calls' = [calls EXCEPT ![c].pc = "uploading"]
    /\ UNCHANGED <<invocation, service, screen, interview>>

\* The service stores the audio and answers its URL, or answers a body
\* without upload_url.
UploadRespondsOf(c) ==
    /\ calls[c].pc = "uploading"
    /\ \/ /\ service' = [service EXCEPT !.uploads = Append(@, c)]
          /\ calls' = [calls EXCEPT ![c].audioUrl = UploadUrls[Len(service.uploads) + 1],
                                    ![c].pc = "submitting"]
       \/ /\ calls' = [calls EXCEPT ![c].audioUrl = Undefined, ![c].pc = "submitting"]
          /\ UNCHANGED service
    /\ UNCHANGED <<invocation, screen, interview>>

UploadThrowsOf(c) ==
    /\ calls[c].pc = "uploading"
    /\ CatchOf(c, NetworkFailure("upload"))
    /\ UNCHANGED <<invocation, service, screen, interview>>

\* The service creates a job for the audio at audio_url and answers its
\* id, or answers a body without id.
SubmitRespondsOf(c) ==
    /\ calls[c].pc = "submitting"
    /\ \/ /\ AudioAt(calls[c].audioUrl) /= 0
          /\ service' = [service EXCEPT
                            !.jobs = Append(@, [audio |-> AudioAt(calls[c].audioUrl), by |-> c])]
          /\ calls' = [calls EXCEPT ![c].transcriptId = JobIds[Len(service.jobs) + 1],
                                    ![c].polls = 1, ![c].pc = "polling"]
       \/ /\ calls' = [calls EXCEPT ![c].transcriptId = Undefined,
                                    ![c].polls = 1, ![c].pc = "polling"]
          /\ UNCHANGED service
    /\ UNCHANGED <<invocation, screen, interview>>

SubmitThrowsOf(c) ==
    /\ calls[c].pc = "submitting"
    /\ CatchOf(c, NetworkFailure("submit"))
    /\ UNCHANGED <<invocation, service, screen, interview>>

PollRespondsOf(c) ==
    /\ calls[c].pc = "polling"
    /\ \E data \in PollResponsesOf(PolledId(c)) :
          LET polled == calls[c].polled \cup {PolledId(c)}
          IN  CASE PollOutcome(data) = "break" ->
                     calls' = [calls EXCEPT ![c].polled = polled,
                                            ![c].ret = Result(data), ![c].pc = "done"]
                [] PollOutcome(data) = "throw" ->
                     calls' = [calls EXCEPT ![c].polled = polled,
                                            ![c].caught = JobError(data),
                                            ![c].ret = CatchReturn(JobError(data)),
                                            ![c].pc = "done"]
                [] OTHER ->
                     calls' = [calls EXCEPT ![c].polled = polled, ![c].pc = "sleeping"]
    /\ UNCHANGED <<invocation, service, screen, interview>>

PollThrowsOf(c) ==
    /\ calls[c].pc = "polling"
    /\ calls' = [calls EXCEPT ![c].polled = @ \cup {PolledId(c)},
                              ![c].caught = NetworkFailure("poll"),
                              ![c].ret = CatchReturn(NetworkFailure("poll")),
                              ![c].pc = "done"]
    /\ UNCHANGED <<invocation, service, screen, interview>>

NextPollOf(c) ==
    /\ calls[c].pc = "sleeping"
    /\ calls[c].polls < MaxPolls
    /\ calls' = [calls EXCEPT ![c].polls = @ + 1, ![c].pc = "polling"]
    /\ UNCHANGED <<invocation, service, screen, interview>>

ConcurrentNext ==
    \/ \E c \in Invocations : UploadOf(c)
    \/ \E c \in Invocations : UploadRespondsOf(c)
    \/ \E c \in Invocations : UploadThrowsOf(c)
    \/ \E c \in Invocations : SubmitRespondsOf(c)
    \/ \E c \in Invocations : SubmitThrowsOf(c)
    \/ \E c \in Invocations : PollRespondsOf(c)
    \/ \E c \in Invocations : PollThrowsOf(c)
    \/ \E c \in Invocations : NextPollOf(c)

ConcurrentSpec == ConcurrentInit /\ [][ConcurrentNext]_vars

(***************************************************************************)
(* The record screen (RecordScreen), in its two versions: the state of the *)
(* component between two handlers.  analyzeAudio is seen from outside: a   *)
(* call that is pending and then resolves to a result or to null.          *)
(***************************************************************************)
NotAnalysed == [kind |-> "undefined"]

\* What analyzeAudio(uri) resolves to.
AnalysisOf(uri, completed) == IF completed THEN [kind |-> "result", of |-> uri] ELSE Null

\* setRecordings(prev => [...prev.slice(0, -1), { ...newRecording, analysis }])
ReplaceLast(prev, newRecording, analysis) ==
    Append(SubSeq(prev, 1, Len(prev) - 1), [newRecording EXCEPT !.analysis = analysis])

\* prev.filter((_, i) => i !== index)
RemoveAt(prev, index) == SubSeq(prev, 1, index - 1) \o SubSeq(prev, index + 1, Len(prev))

RecordInit ==
    /\ Entered
    /\ calls = <<>>
    /\ service = <<>>
    /\ interview = <<>>
    /\ \E version \in {1, 2} :
          screen = [version |-> version, isRecording |-> FALSE, recording |-> FALSE,
                    isAnalyzing |-> FALSE, recordings |-> <<>>, pending |-> {},
                    made |-> 0, deleted |-> {}]

\* The record button is disabled: only in the second version, while an
\* analysis is pending.
ButtonDisabled == screen.version = 2 /\ screen.isAnalyzing

\* startRecording, the recording created.
StartRecording ==
    /\ ~screen.isRecording
    /\ ~ButtonDisabled
    /\ screen.made < MaxRecordings
    /\ screen' = [screen EXCEPT !.isRecording = TRUE, !.recording = TRUE]
    /\ UNCHANGED <<invocation, calls, service, interview>>

\* startRecording, Audio.Recording.createAsync rejected: only the second
\* version resets isRecording.
StartRecordingThrows ==
    /\ ~screen.isRecording
    /\ ~ButtonDisabled
    /\ screen.made < MaxRecordings
    /\ screen' = [screen EXCEPT !.isRecording = (screen.version = 1)]
    /\ UNCHANGED <<invocation, calls, service, interview>>

\* stopRecording up to the await of analyzeAudio: without a recording, or
\* with one that did not load, it returns; else it appends the new
\* recording and starts its analysis.
StopRecording ==
    /\ screen.isRecording
    /\ ~ButtonDisabled
    /\ \/ /\ ~screen.recording                \* if (!recording) return
          /\ screen' = [screen EXCEPT !.isRecording = FALSE]
       \/ /\ screen.recording                 \* if (!status.isLoaded) return
          /\ screen' = [screen EXCEPT !.isRecording = FALSE]
       \/ /\ screen.recording
          /\ LET newRecording == [uri |-> screen.made + 1, analysis |-> NotAnalysed]
             IN  screen' = [screen EXCEPT !.isRecording = FALSE,
                                          !.recording = FALSE,
                                          !.recordings = Append(@, newRecording),
                                          !.made = @ + 1,
                                          !.pending = @ \cup {newRecording.uri},
                                          !.isAnalyzing = (screen.version = 2)]
    /\ UNCHANGED <<invocation, calls, service, interview>>

\* stopRecording after the await: analyzeAudio(uri) resolved.  The first
\* version stores whatever it resolved to, the second only a result.
AnalysisResolves ==
    /\ \E uri \in screen.pending : \E completed \in BOOLEAN :
          LET newRecording == [uri |-> uri, analysis |-> NotAnalysed]
              analysis == AnalysisOf(uri, completed)
          IN  screen' = [screen EXCEPT
                            !.pending = @ \ {uri},
                            !.isAnalyzing = IF screen.version = 2 THEN FALSE ELSE @,
                            !.recordings = IF screen.version = 1 \/ analysis /= Null
                                           THEN ReplaceLast(@, newRecording, analysis)
                                           ELSE @]
    /\ UNCHANGED <<invocation, calls, service, interview>>

\* handleDelete(index), confirmed.
HandleDelete ==
    /\ \E index \in 1..Len(screen.recordings) :
          screen' = [screen EXCEPT !.recordings = RemoveAt(@, index),
                                   !.deleted = @ \cup {screen.recordings[index].uri}]
    /\ UNCHANGED <<invocation, calls, service, interview>>

RecordNext ==
    \/ StartRecording
    \/ StartRecordingThrows
    \/ StopRecording
    \/ AnalysisResolves
    \/ HandleDelete

RecordSpec == RecordInit /\ [][RecordNext]_vars

(***************************************************************************)
(* The interview screen (InterviewPrepScreen): the state of the component  *)
(* between two handlers or awaits.  analyzeAudio and the content scoring   *)
(* are seen from outside, as calls that are pending and then resolve.      *)
(***************************************************************************)
\* contentAnalysis.overallScore: a score of the scoring service, 0 for a
\* missing one, 67 when the service failed.
OverallScores == {0, 67, 90}

ScoreOf(response) == response.overallScore

ScoresOf(list) == [i \in 1..Len(list) |-> ScoreOf(list[i])]

\* The mean is truncated instead of rounded.
OverallScoreTruncated(sessionResponses) ==
    MathTrunc(Frac(SumSeq(ScoresOf(sessionResponses)), Len(sessionResponses)))

\* Math.round(currentSession.responses.reduce(...) / currentSession.responses.length)
OverallScore(sessionResponses) ==
    MathRound(Frac(SumSeq(ScoresOf(sessionResponses)), Len(sessionResponses)))

InterviewInit ==
    /\ Entered
    /\ calls = <<>>
    /\ service = <<>>
    /\ screen = <<>>
    /\ interview = [showSetup |-> TRUE, showQuestionModal |-> FALSE,
                    showResultsModal |-> FALSE,
                    currentSession |-> Null, currentQuestionIndex |-> 0,
                    isRecording |-> FALSE, recording |-> FALSE, isAnalyzing |-> FALSE,
                    selectedResponse |-> Null, pastSessions |-> <<>>,
                    awaiting |-> "none", speechAnalysis |-> Pending,
                    recorded |-> 0, analysed |-> <<>>, scored |-> <<>>]

\* startNewSession: the questions arrived (one when the generator failed).
StartNewSession ==
    /\ interview.showSetup
    /\ \E n \in 1..MaxQuestions :
          interview' = [interview EXCEPT
                           !.currentSession = [kind |-> "session", questions |-> n,
                                               responses |-> <<>>],
                           !.currentQuestionIndex = 0,
                           !.showSetup = FALSE,
                           !.showQuestionModal = TRUE]
    /\ UNCHANGED <<invocation, calls, service, screen>>

\* The record button of the question modal.
RecordButtonShown ==
    /\ ~interview.showSetup
    /\ interview.showQuestionModal
    /\ ~interview.isAnalyzing

InterviewStartRecording ==
    /\ RecordButtonShown
    /\ ~interview.isRecording
    /\ interview.recorded < MaxAnswers
    /\ \/ interview' = [interview EXCEPT !.isRecording = TRUE, !.recording = TRUE]
       \/ interview' = [interview EXCEPT !.isRecording = FALSE]   \* catch
    /\ UNCHANGED <<invocation, calls, service, screen>>

\* stopRecording up to the await of analyzeAudio(uri).
InterviewStopRecording ==
    /\ RecordButtonShown
    /\ interview.isRecording
    /\ \/ /\ ~interview.recording \/ interview.currentSession = Null
          /\ interview' = [interview EXCEPT !.isRecording = FALSE]
       \/ /\ interview.recording /\ interview.currentSession /= Null
          /\ interview' = [interview EXCEPT !.isRecording = FALSE]    \* if (!uri) return
       \/ /\ interview.recording /\ interview.currentSession /= Null
          /\ interview' = [interview EXCEPT
                              !.isRecording = FALSE,
                              !.recording = FALSE,
                              !.isAnalyzing = TRUE,
                              !.awaiting = "speech",
                              !.recorded = @ + 1,
                              !.analysed = Append(@, interview.recorded + 1)]
    /\ UNCHANGED <<invocation, calls, service, screen>>

\* analyzeAudio resolved: null is thrown to the catch block and the alert;
\* with a result analyzeInterviewResponse is called with its text.
SpeechAnalysisResolves ==
    /\ interview.awaiting = "speech"
    /\ \E speechAnalysis \in {Null} \cup {Result(AudioTranscript(c)) : c \in Invocations} :
          IF speechAnalysis = Null
          THEN interview' = [interview EXCEPT !.speechAnalysis = speechAnalysis,
                                              !.awaiting = "none",
                                              !.isAnalyzing = FALSE]
          ELSE interview' = [interview EXCEPT !.speechAnalysis = speechAnalysis,
                                              !.awaiting = "content",
                                              !.scored = Append(@, speechAnalysis.text)]
    /\ UNCHANGED <<invocation, calls, service, screen>>

\* analyzeInterviewResponse resolved (it never rejects): the response is
\* appended to the session and the results modal replaces the question.
ContentAnalysisResolves ==
    /\ interview.awaiting = "content"
    /\ \E overallScore \in OverallScores :
          LET newResponse == [transcript |-> interview.speechAnalysis.text,
                              overallScore |-> overallScore,
                              answer |-> interview.recorded]
          IN  interview' = [interview EXCEPT
                               !.currentSession.responses = Append(@, newResponse),
                               !.selectedResponse = newResponse,
                               !.showQuestionModal = FALSE,
                               !.showResultsModal = TRUE,
                               !.awaiting = "none",
                               !.isAnalyzing = FALSE]
    /\ UNCHANGED <<invocation, calls, service, screen>>

\* The results modal with its buttons.
ResultsShown ==
    /\ ~interview.showSetup
    /\ interview.showResultsModal
    /\ interview.selectedResponse /= Null

\* completeSession
CompleteSession(state) ==
    IF state.currentSession = Null THEN state
    ELSE [state EXCEPT
             !.pastSessions = <<[state.currentSession EXCEPT !.kind = "completed"]
                                    @@ [overallScore |->
                                           OverallScore(state.currentSession.responses)]>> \o @,
             !.currentSession = Null,
             !.showSetup = TRUE,
             !.currentQuestionIndex = 0]

MoveToNextQuestion ==
    /\ ResultsShown
    /\ IF interview.currentQuestionIndex < interview.currentSession.questions - 1
       THEN interview' = [interview EXCEPT !.showResultsModal = FALSE,
                                           !.currentQuestionIndex = @ + 1,
                                           !.showQuestionModal = TRUE]
       ELSE interview' = CompleteSession([interview EXCEPT !.showResultsModal = FALSE])
    /\ UNCHANGED <<invocation, calls, service, screen>>

\* The close button of the results modal: setShowResultsModal(false).
CloseResults ==
    /\ ResultsShown
    /\ interview' = [interview EXCEPT !.showResultsModal = FALSE]
    /\ UNCHANGED <<invocation, calls, service, screen>>

InterviewNext ==
    \/ StartNewSession
    \/ InterviewStartRecording
    \/ InterviewStopRecording
    \/ SpeechAnalysisResolves
    \/ ContentAnalysisResolves
    \/ MoveToNextQuestion
    \/ CloseResults

InterviewSpec == InterviewInit /\ [][InterviewNext]_vars

(***************************************************************************)
(* Properties.                                                             *)
(***************************************************************************)
Returned == pc = "done"

Succeeded == pc = "done" /\ ret.kind = "result"

StatusAt(i) == responses[i].status

InProgress == {"queued", "processing"}

\* C1: when the first n poll responses are `queued` or `processing` and
\* response n+1 is `completed`, exactly n+1 polls were issued, none follows
\* the `completed` response (the call has returned), and the result is built
\* from response n+1.
C1_ExactlyNPlusOnePolls ==
    \A n \in 0..(Len(responses) - 1) :
        ((\A i \in 1..n : StatusAt(i) \in InProgress) /\ StatusAt(n + 1) = "completed")
            => /\ polls = n + 1
               /\ Len(responses) = n + 1
               /\ Succeeded
               /\ ret.text = responses[n + 1].text
               /\ ret.words = responses[n + 1].words
               /\ ret.analysis = analyzeTranscript(responses[n + 1])

C1_Witness ==
    /\ Succeeded
    /\ polls = 3
    /\ StatusAt(1) = "processing" /\ StatusAt(2) = "processing" /\ StatusAt(3) = "completed"
    /\ Len(ret.words) = 2

\* C2: a poll response with status `error` ends the call: null is returned,
\* the error is the one thrown for the job, and no poll follows it, whatever
\* preceded it.
C2_ErrorEndsWithoutRetry ==
    \A i \in 1..Len(responses) :
        StatusAt(i) = "error"
            => /\ Returned
               /\ ret.kind = "null"
               /\ caught = JobError(responses[i])
               /\ polls = i
               /\ Len(responses) = i

C2_Witness ==
    /\ Returned
    /\ Len(responses) = 3
    /\ StatusAt(1) = "queued" /\ StatusAt(2) = "processing" /\ StatusAt(3) = "error"
    /\ ret.kind = "null"

\* C3: every invocation of analyzeAudio eventually returns.
C3_Terminates == <>Returned

\* C4: what analyzeAudio returns is either the complete result derived from
\* the one `completed` response, or null; after any failure of upload,
\* submit or polling it is null, never a result.
C4_ResultOrNull ==
    /\ ~Returned => ret = Pending
    /\ Returned =>
          IF caught = NoError /\ audioUrl /= Undefined /\ transcriptId /= Undefined
                /\ Len(responses) > 0 /\ StatusAt(Len(responses)) = "completed"
          THEN LET transcript == responses[Len(responses)]
               IN  /\ ret.kind = "result"
                   /\ \A i \in 1..(Len(responses) - 1) : StatusAt(i) /= "completed"
                   /\ ret.text = transcript.text
                   /\ ret.words = transcript.words
                   /\ ret.fillers = SelectSeq(transcript.words, IsFiller)
                   /\ ret.repeatedWords = getRepeatedWords(transcript.words)
                   /\ ret.analysis = analyzeTranscript(transcript)
                   /\ Len(ret.analysis.feedback) > 0
                   /\ Len(ret.analysis.recommendations) > 0
          ELSE ret = Null

C4_Witness ==
    /\ Returned
    /\ caught = NetworkFailure("poll")
    /\ Len(responses) = 2
    /\ ret = Null

\* C5: an upload response without upload_url is not followed by the submit
\* and poll steps.
C5_NoSubmitWithoutUploadUrl ==
    pc \in {"submitting", "polling", "sleeping"} => audioUrl /= Undefined

\* C6: one failed poll request does not end the call: when the call ends
\* with the network failure of a poll, more than one poll request had failed.
C6_PollFailureIsRetried ==
    (Returned /\ caught = NetworkFailure("poll")) => failedPolls > 1

\* C7: the failure the caller receives is the failure that was produced,
\* kind and reason included.
C7_FailureReachesCaller ==
    (Returned /\ caught /= NoError) => (ret.kind = "failure" /\ ret.error = caught)

\* C8: fillerRate and speakingPace are never negative, and a completed
\* transcript with no words is analysed into zero rates, a zero confidence
\* score and empty lists.
C8_DegenerateMetrics ==
    /\ Succeeded => (ret.analysis.fillerRate >= 0 /\ ret.analysis.speakingPace >= 0)
    /\ (Len(responses) > 0 /\ StatusAt(Len(responses)) = "completed"
            /\ responses[Len(responses)].words = <<>>)
          => /\ Succeeded
             /\ ret.analysis.fillerRate = 0
             /\ ret.analysis.speakingPace = 0
             /\ ret.analysis.totalFillers = 0
             /\ ret.analysis.confidenceScore = 0
             /\ ret.analysis.mostUsedFillers = <<>>
             /\ ret.analysis.pronunciationIssues = <<>>
             /\ ret.analysis.longPauses = <<>>
             /\ ret.repeatedWords = <<>>

C8_Witness == Succeeded /\ ret.words = <<>> /\ ret.analysis.confidenceScore = 0

GapBefore(words, i) == words[i].start - words[i - 1].end

PauseBefore(words, i) ==
    [start |-> words[i - 1].end, end |-> words[i].start, duration |-> GapBefore(words, i)]

\* C9: longPauses holds one record per adjacent pair of words whose gap is
\* strictly above 2.5 s, with the pair's end, start and gap, in the order of
\* the pairs, and nothing else.
C9_LongPausesExact ==
    Succeeded =>
        LET words == ret.words
            longPauses == ret.analysis.longPauses
            long == {i \in 2..Len(words) : GapBefore(words, i) > 25}
        IN  /\ Len(longPauses) = Cardinality(long)
            /\ \A i \in long : \E k \in 1..Len(longPauses) : longPauses[k] = PauseBefore(words, i)
            /\ \A k \in 1..Len(longPauses) : \E i \in long : longPauses[k] = PauseBefore(words, i)
            /\ \A k \in 1..Len(longPauses) : longPauses[k].duration > 25

C9_Witness ==
    /\ Succeeded
    /\ Len(ret.words) = 3
    /\ GapBefore(ret.words, 2) = 30
    /\ GapBefore(ret.words, 3) = 25
    /\ ret.analysis.longPauses = <<[start |-> 35, end |-> 65, duration |-> 30]>>

Occurrences(words, text) ==
    Cardinality({i \in 1..Len(words) :
                    words[i].type /= Disfluency /\ toLowerCase(words[i].text) = text})

\* C10: repeatedWords holds exactly the lower-cased non-filler texts longer
\* than one character that occur more than once, each with its count, in
\* non-increasing order of count.
C10_RepeatedWordsExact ==
    Succeeded =>
        LET words == ret.words
            repeated == {toLowerCase(words[i].text) : i \in 1..Len(words)}
            expected == {t \in repeated : Len(t) > 1 /\ Occurrences(words, t) > 1}
            actual == ret.repeatedWords
        IN  /\ {actual[k].word : k \in 1..Len(actual)} = expected
            /\ Len(actual) = Cardinality(expected)
            /\ \A k \in 1..Len(actual) :
                  actual[k].count = Num(Occurrences(words, actual[k].word))
            /\ \A k \in 1..(Len(actual) - 1) : actual[k].count.n >= actual[k + 1].count.n

(***************************************************************************)
(* The transcript of the `completed` response, measured without the        *)
(* operators of the model.                                                 *)
(***************************************************************************)
Completed == responses[Len(responses)]

SpokenIn(words) == {i \in 1..Len(words) : words[i].type /= Disfluency}

FillersIn(words) == {i \in 1..Len(words) : words[i].type = Disfluency}

Seconds(transcript) ==
    IF transcript.audio_duration = 0 THEN 1 ELSE transcript.audio_duration

\* The sum of the confidences (in hundredths) of the spoken words.
SpokenConfidence(words) ==
    SumSeq([i \in 1..Len(words) |->
               IF words[i].type /= Disfluency THEN words[i].confidence ELSE 0])

\* The k-th smallest element of a set of indices.
Kth(S, k) == CHOOSE i \in S : Cardinality({j \in S : j < i}) = k - 1

\* How often a message with this fixed text occurs in a list.
Times(list, text) == Cardinality({k \in 1..Len(list) : list[k].text = text})

\* C11: confidenceScore is the mean confidence of the non-filler words
\* times 100, rounded to the nearest integer (halves up), within 0..100,
\* and 0 when there is no non-filler word.
C11_ConfidenceScoreIsSpokenMean ==
    Succeeded =>
        LET n == Cardinality(SpokenIn(ret.words))
            sum == SpokenConfidence(ret.words)
            score == ret.analysis.confidenceScore
        IN  /\ score \in 0..100
            /\ n = 0 => score = 0
            /\ n > 0 => (2 * n * score <= 2 * sum + n /\ 2 * sum + n < 2 * n * (score + 1))

C11_Witness ==
    /\ Succeeded
    /\ Len(ret.words) = 2
    /\ ret.words[1].type /= Disfluency /\ ret.words[1].confidence = 90
    /\ ret.words[2].type = Disfluency /\ ret.words[2].confidence = 10
    /\ ret.analysis.confidenceScore = 90

\* C12: pronunciationIssues lists, in transcript order, exactly the
\* non-filler words of confidence below 0.6, each with its text and
\* confidence.
C12_PronunciationIssuesExact ==
    Succeeded =>
        LET words == ret.words
            issues == ret.analysis.pronunciationIssues
            flagged == {i \in SpokenIn(words) : words[i].confidence < 60}
        IN  /\ Len(issues) = Cardinality(flagged)
            /\ \A k \in 1..Len(issues) :
                  issues[k] = [word |-> words[Kth(flagged, k)].text,
                               confidence |-> words[Kth(flagged, k)].confidence]

C12_Witness ==
    /\ Succeeded
    /\ Len(ret.words) = 3
    /\ ret.words[1].confidence = 59 /\ ret.words[1].type /= Disfluency
    /\ ret.words[2].confidence = 10 /\ ret.words[2].type = Disfluency
    /\ ret.words[3].confidence = 60 /\ ret.words[3].type /= Disfluency
    /\ ret.analysis.pronunciationIssues = <<[word |-> tcat, confidence |-> 59]>>

FewFillers == "Excellent! Very few filler words detected."

SomeFillers == "Good control of filler words, but there's room for improvement."

ManyFillers == "High filler word usage detected. This may distract your audience."

PauseInstead == "Practice pausing instead of using filler words when you need time to think."

KnowYourPatterns == "Record yourself regularly and become aware of your filler word patterns."

SpeakDeliberately == "Practice speaking more slowly and deliberately."

\* The filler-rate rule on a rate r = 60 * fillers / seconds: praise below
\* 2, the warning above 5 (or from 5 on), the mild caution between.
FillerRateRuleHolds(warnFromFive) ==
    LET fillers == Cardinality(FillersIn(Completed.words))
        seconds == Seconds(Completed)
        feedback == ret.analysis.feedback
        recommendations == ret.analysis.recommendations
        praise == 60 * fillers < 2 * seconds
        warning == IF warnFromFive THEN 60 * fillers >= 5 * seconds
                   ELSE 60 * fillers > 5 * seconds
        mild == ~praise /\ ~warning
    IN  /\ Times(feedback, FewFillers) + Times(feedback, SomeFillers)
              + Times(feedback, ManyFillers) = 1
        /\ Times(feedback, FewFillers) = (IF praise THEN 1 ELSE 0)
        /\ Times(feedback, SomeFillers) = (IF mild THEN 1 ELSE 0)
        /\ Times(feedback, ManyFillers) = (IF warning THEN 1 ELSE 0)
        /\ Times(recommendations, PauseInstead) = (IF mild THEN 1 ELSE 0)
        /\ Times(recommendations, KnowYourPatterns) = (IF warning THEN 1 ELSE 0)
        /\ Times(recommendations, SpeakDeliberately) = (IF warning THEN 1 ELSE 0)

\* C13 (as claimed): praise when r < 2, mild caution and one recommendation
\* when 2 <= r <= 5, the warning and two recommendations only when r > 5.
C13_FillerRateRuleAsClaimed == Succeeded => FillerRateRuleHolds(FALSE)

\* C13 (amended): praise when r < 2, mild caution and one recommendation
\* when 2 <= r < 5, the warning and two recommendations when r >= 5.
C13_FillerRateRule == Succeeded => FillerRateRuleHolds(TRUE)

C13_Witness ==
    /\ Succeeded
    /\ Cardinality(FillersIn(Completed.words)) = 1
    /\ Completed.audio_duration = 12
    /\ Times(ret.analysis.feedback, ManyFillers) = 1
    /\ Times(ret.analysis.recommendations, SpeakDeliberately) = 1

ClearArticulation == "Clear articulation detected - your speech is easy to understand."

GenerallyClear == "Generally clear speech with some areas for improvement."

SpeakMoreClearly == "Consider speaking more clearly - some words may be difficult to understand."

EnsurePronunciation == "Speak more clearly and ensure proper pronunciation of key words."

ArticulationExercises == "Practice articulation exercises and speak more slowly."

\* The mean-confidence rule on m = sum / (100 * n), 0 without spoken words:
\* praise above 0.8, the warning below 0.6 (or up to 0.6), the mild note
\* between.
ConfidenceRuleHolds(warnAtSixTenths) ==
    LET n == Cardinality(SpokenIn(Completed.words))
        sum == SpokenConfidence(Completed.words)
        feedback == ret.analysis.feedback
        recommendations == ret.analysis.recommendations
        praise == sum > 80 * n
        warning == IF warnAtSixTenths THEN sum <= 60 * n ELSE sum < 60 * n \/ n = 0
        mild == ~praise /\ ~warning
    IN  /\ Times(feedback, ClearArticulation) + Times(feedback, GenerallyClear)
              + Times(feedback, SpeakMoreClearly) = 1
        /\ Times(feedback, ClearArticulation) = (IF praise THEN 1 ELSE 0)
        /\ Times(feedback, GenerallyClear) = (IF mild THEN 1 ELSE 0)
        /\ Times(feedback, SpeakMoreClearly) = (IF warning THEN 1 ELSE 0)
        /\ Times(recommendations, EnsurePronunciation) = (IF mild THEN 1 ELSE 0)
        /\ Times(recommendations, ArticulationExercises) = (IF warning THEN 1 ELSE 0)

\* C14 (as claimed): praise when m > 0.8, the mild note and one
\* recommendation when 0.6 <= m <= 0.8, the warning and one recommendation
\* only when m < 0.6.
C14_ConfidenceRuleAsClaimed == Succeeded => ConfidenceRuleHolds(FALSE)

\* C14 (amended): praise when m > 0.8, the mild note and one recommendation
\* when 0.6 < m <= 0.8, the warning and one recommendation when m <= 0.6.
C14_ConfidenceRule == Succeeded => ConfidenceRuleHolds(TRUE)

C14_Witness ==
    /\ Succeeded
    /\ Len(Completed.words) = 1
    /\ Completed.words[1].type /= Disfluency
    /\ Completed.words[1].confidence = 60
    /\ Times(ret.analysis.feedback, SpeakMoreClearly) = 1
    /\ Times(ret.analysis.recommendations, ArticulationExercises) = 1

TooSlow == "Your speaking pace is quite slow. Consider speaking a bit faster to maintain engagement."

TooFast == "You're speaking quite fast. Slow down to ensure clarity and comprehension."

GoodPace == "Your speaking pace is in a good range for clear communication."

SpeakFaster == "Practice speaking at 150-160 words per minute for optimal clarity and engagement."

TakePauses == "Take deliberate pauses between sentences to give your audience time to process."

\* C15: on a pace p = 60 * spoken words / seconds the rule appends exactly
\* one statement: "too slow" and one recommendation when p < 120, "too fast"
\* and one recommendation when p > 200, the praise and no recommendation
\* when 120 <= p <= 200.
C15_SpeakingPaceRule ==
    Succeeded =>
        LET spoken == Cardinality(SpokenIn(Completed.words))
            seconds == Seconds(Completed)
            feedback == ret.analysis.feedback
            recommendations == ret.analysis.recommendations
            slow == 60 * spoken < 120 * seconds
            fast == 60 * spoken > 200 * seconds
        IN  /\ Times(feedback, TooSlow) + Times(feedback, TooFast)
                  + Times(feedback, GoodPace) = 1
            /\ Times(feedback, TooSlow) = (IF slow THEN 1 ELSE 0)
            /\ Times(feedback, TooFast) = (IF fast THEN 1 ELSE 0)
            /\ Times(recommendations, SpeakFaster) = (IF slow THEN 1 ELSE 0)
            /\ Times(recommendations, TakePauses) = (IF fast THEN 1 ELSE 0)

C15_Witness ==
    /\ Succeeded
    /\ Cardinality(SpokenIn(Completed.words)) = 12
    /\ Completed.audio_duration = 6
    /\ ret.analysis.speakingPace = 120
    /\ Times(ret.analysis.feedback, GoodPace) = 1

\* The metrics analyzeTranscript reports.
Reported(analysis) ==
    <<analysis.totalFillers, analysis.fillerRate, analysis.speakingPace,
      analysis.confidenceScore, analysis.mostUsedFillers, analysis.commonFillerCounts,
      analysis.longPauses, analysis.pronunciationIssues>>

\* C16: two analyses that report identical metrics carry identical feedback
\* and recommendation lists, whichever transcripts they came from.
C16_FeedbackDeterminedByReportedMetrics ==
    Succeeded =>
        \A t \in Transcripts :
            LET other == analyzeTranscript(t)
            IN  Reported(other) = Reported(ret.analysis)
                    => /\ other.feedback = ret.analysis.feedback
                       /\ other.recommendations = ret.analysis.recommendations

MostUsedFiller == "Your most used filler word is"

CommonFillersUsed == "You used common filler words. Try to reduce them for clearer speech."

LongGapsIn(words) == {i \in 2..Len(words) : words[i].start - words[i - 1].end > 25}

\* One minute, 120 spoken words, no filler, no long pause, mean confidence
\* 0.95.
IsFluentMinute(transcript) ==
    /\ transcript.audio_duration = 60
    /\ Len(transcript.words) = 120
    /\ FillersIn(transcript.words) = {}
    /\ LongGapsIn(transcript.words) = {}
    /\ SpokenConfidence(transcript.words) = 95 * 120

SaysNoCommonFiller(words) ==
    \A i \in 1..Len(words) : \A k \in 1..Len(COMMON_FILLERS) :
        toLowerCase(words[i].text) /= COMMON_FILLERS[k]

FluentMinuteOutcome ==
    /\ ret.analysis.speakingPace = 120
    /\ ret.analysis.fillerRate = 0
    /\ Times(ret.analysis.feedback, GoodPace) = 1
    /\ Times(ret.analysis.feedback, ClearArticulation) = 1
    /\ Times(ret.analysis.feedback, ManyFillers) = 0
    /\ Times(ret.analysis.feedback, SomeFillers) = 0
    /\ Times(ret.analysis.feedback, MostUsedFiller) = 0
    /\ Times(ret.analysis.feedback, CommonFillersUsed) = 0

\* C17 (as claimed): whatever its words' texts, a fluent minute is reported
\* with pace 120 and filler rate 0, and its feedback has the good-pace and
\* clear-articulation statements and no filler warning or call-out.
C17_FluentMinuteAsClaimed ==
    (Succeeded /\ IsFluentMinute(Completed)) => FluentMinuteOutcome

\* C17 (amended): the same, for a fluent minute none of whose words is,
\* lower-cased, a term of the common-filler vocabulary.
C17_FluentMinute ==
    (Succeeded /\ IsFluentMinute(Completed) /\ SaysNoCommonFiller(Completed.words))
        => FluentMinuteOutcome

C17_Witness ==
    /\ Succeeded
    /\ IsFluentMinute(Completed)
    /\ \A i \in 1..120 : Completed.words[i].text = tcat
    /\ ret.analysis.speakingPace = 120

TrackImprovement == "Record yourself regularly to track improvement over time."

PracticeWithFriends == "Practice in front of a mirror or with friends for feedback."

\* C18: the recommendations end with the two general recommendations, in
\* that order, and every other recommendation stands before them.
C18_GeneralRecommendationsLast ==
    Succeeded =>
        LET recommendations == ret.analysis.recommendations
            n == Len(recommendations)
        IN  /\ n >= 2
            /\ recommendations[n - 1].text = TrackImprovement
            /\ recommendations[n].text = PracticeWithFriends
            /\ \A k \in 1..(n - 2) :
                  recommendations[k].text \notin {TrackImprovement, PracticeWithFriends}

C18_Witness ==
    /\ Succeeded
    /\ Len(ret.analysis.recommendations) > 2
    /\ ret.analysis.recommendations[1].text = KnowYourPatterns
    /\ ret.analysis.recommendations[Len(ret.analysis.recommendations)].text = PracticeWithFriends

GoodFlow == "Good flow with appropriate pausing."

PausesDetected == "long pause(s) detected. Some pauses can be effective, but too many may indicate hesitation."

PrepareContent == "Prepare your content more thoroughly to reduce hesitation pauses."

PracticeFlow == "Practice your presentation multiple times to improve flow."

\* C19: with no long pause the rule appends the good-flow praise and no
\* recommendation; with some it appends the note with their number; the two
\* preparation recommendations are added exactly when the number of pauses
\* exceeds twice the duration in minutes (30 * pauses > seconds).
C19_PauseRule ==
    Succeeded =>
        LET pauses == Cardinality(LongGapsIn(Completed.words))
            seconds == Seconds(Completed)
            feedback == ret.analysis.feedback
            recommendations == ret.analysis.recommendations
            many == 30 * pauses > seconds
        IN  /\ Times(feedback, GoodFlow) = (IF pauses = 0 THEN 1 ELSE 0)
            /\ Times(feedback, PausesDetected) = (IF pauses > 0 THEN 1 ELSE 0)
            /\ \A k \in 1..Len(feedback) :
                  feedback[k].text = PausesDetected => feedback[k].nums = <<pauses>>
            /\ Times(recommendations, PrepareContent) = (IF many THEN 1 ELSE 0)
            /\ Times(recommendations, PracticeFlow) = (IF many THEN 1 ELSE 0)

C19_Witness ==
    /\ Succeeded
    /\ Cardinality(LongGapsIn(Completed.words)) = 1
    /\ Completed.audio_duration = 30
    /\ Times(ret.analysis.feedback, PausesDetected) = 1
    /\ Times(ret.analysis.recommendations, PrepareContent) = 0

PotentialIssues == "Potential pronunciation issues detected on words:"

WorkOnArticulation == "Work on clear articulation and pronunciation, especially these words."

CompareToNatives == "Record yourself and compare to native speakers."

FlaggedIn(words) == {i \in SpokenIn(words) : words[i].confidence < 60}

\* The text a flagged word is listed under.
ListedAs(word, lowerCased) == IF lowerCased THEN toLowerCase(word.text) ELSE word.text

\* The flagged words, each once, in order of first appearance.
FlaggedOnce(words, lowerCased) ==
    LET first == {i \in FlaggedIn(words) :
                     \A j \in FlaggedIn(words) :
                         j < i => ListedAs(words[j], lowerCased) /= ListedAs(words[i], lowerCased)}
    IN  [k \in 1..Cardinality(first) |-> ListedAs(words[Kth(first, k)], lowerCased)]

PronunciationRuleHolds(lowerCased) ==
    LET words == Completed.words
        feedback == ret.analysis.feedback
        recommendations == ret.analysis.recommendations
        some == IF FlaggedIn(words) /= {} THEN 1 ELSE 0
    IN  /\ Times(feedback, PotentialIssues) = some
        /\ Times(recommendations, WorkOnArticulation) = some
        /\ Times(recommendations, CompareToNatives) = some
        /\ \A k \in 1..Len(feedback) :
              feedback[k].text = PotentialIssues
                  => feedback[k].words = FlaggedOnce(words, lowerCased)

\* C20 (as claimed): with flagged words, one statement lists each flagged
\* word once, in order of first appearance, and two recommendations are
\* added; without, neither.
C20_PronunciationRuleAsClaimed == Succeeded => PronunciationRuleHolds(FALSE)

\* C20 (amended): the statement lists the lower-cased text of each flagged
\* word once, words that differ in case only counting as one.
C20_PronunciationRule == Succeeded => PronunciationRuleHolds(TRUE)

C20_Witness ==
    /\ Succeeded
    /\ Len(Completed.words) = 3
    /\ Completed.words[1].text = tThe /\ Completed.words[1].confidence = 59
    /\ Completed.words[2].text = tcat /\ Completed.words[2].confidence = 59
    /\ Completed.words[3].text = tthe /\ Completed.words[3].confidence = 59
    /\ \E k \in 1..Len(ret.analysis.feedback) :
          /\ ret.analysis.feedback[k].text = PotentialIssues
          /\ ret.analysis.feedback[k].words = <<tthe, tcat>>

\* C21: for a duration above 0, speakingPace is 60 * (non-filler words) /
\* seconds rounded to the nearest integer and fillerRate (in tenths) is
\* 600 * (filler-tagged words) / seconds rounded to the nearest integer,
\* halves up; every word counts in exactly one of the two.
C21_PaceAndFillerRate ==
    (Succeeded /\ Completed.audio_duration > 0) =>
        LET words == Completed.words
            seconds == Completed.audio_duration
            spoken == Cardinality(SpokenIn(words))
            fillers == Cardinality(FillersIn(words))
            pace == ret.analysis.speakingPace
            rate == ret.analysis.fillerRate
        IN  /\ spoken + fillers = Len(words)
            /\ ret.analysis.totalFillers = fillers
            /\ 2 * seconds * pace <= 120 * spoken + seconds
            /\ 120 * spoken + seconds < 2 * seconds * (pace + 1)
            /\ 2 * seconds * rate <= 1200 * fillers + seconds
            /\ 1200 * fillers + seconds < 2 * seconds * (rate + 1)

\* One spoken word and one filler in 8 s: 7.5 words per minute reported as
\* 8, 7.5 fillers per minute reported as 7.5.
C21_Witness ==
    /\ Succeeded
    /\ Completed.audio_duration = 8
    /\ Cardinality(SpokenIn(Completed.words)) = 1
    /\ Cardinality(FillersIn(Completed.words)) = 1
    /\ ret.analysis.speakingPace = 8
    /\ ret.analysis.fillerRate = 75

FillerKey(w) == trim(toLowerCase(w.text))

\* The fillers (by index) heard under the same key as filler i.
SameFiller(words, i) == {j \in FillersIn(words) : FillerKey(words[j]) = FillerKey(words[i])}

\* The first occurrence of each distinct filler key.
FirstFillers(words) == {i \in FillersIn(words) : \A j \in SameFiller(words, i) : j >= i}

\* The place of a key in the order by count, ties by first occurrence.
FillerRank(words, i) ==
    1 + Cardinality({j \in FirstFillers(words) :
                        \/ Cardinality(SameFiller(words, j)) > Cardinality(SameFiller(words, i))
                        \/ /\ Cardinality(SameFiller(words, j)) = Cardinality(SameFiller(words, i))
                           /\ j < i})

\* C22: mostUsedFillers holds one entry per distinct lower-cased, trimmed
\* filler text with its exact count, by non-increasing count, equal counts
\* in order of first occurrence, cut to the first 10 entries.
C22_MostUsedFillersExact ==
    Succeeded =>
        LET words == Completed.words
            first == FirstFillers(words)
            actual == ret.analysis.mostUsedFillers
        IN  /\ Len(actual) = (IF Cardinality(first) < 10 THEN Cardinality(first) ELSE 10)
            /\ \A i \in first :
                  FillerRank(words, i) <= 10 =>
                      actual[FillerRank(words, i)] =
                          [word |-> FillerKey(words[i]),
                           count |-> Num(Cardinality(SameFiller(words, i)))]

\* A letter a..z as its capital, any other character as itself.
Capital(c) == IF c \in 97..122 THEN c - 32 ELSE c

SameIgnoringCase(a, b) ==
    /\ Len(a) = Len(b)
    /\ \A i \in 1..Len(a) : Capital(a[i]) = Capital(b[i])

\* C23: commonFillerCounts has exactly one key per term of the vocabulary
\* (like, because, so, um, uh, you know); its value is the number of words
\* of the whole transcript, tagged or not, whose text is the term up to
\* letter case.
C23_CommonFillerCountsExact ==
    Succeeded =>
        LET words == Completed.words
            counts == ret.analysis.commonFillerCounts
        IN  /\ Len(counts) = 6
            /\ {counts[k].word : k \in 1..Len(counts)}
                  = {tlike, tbecause, tso, tum, tuh, tyouknow}
            /\ \A k \in 1..Len(counts) :
                  counts[k].count =
                      Cardinality({i \in 1..Len(words) :
                                      SameIgnoringCase(words[i].text, counts[k].word)})

\* A minute whose first word is an untagged "Like".
C23_Witness ==
    /\ Succeeded
    /\ Len(Completed.words) = 120
    /\ Completed.words[1].text = tLike
    /\ FillersIn(Completed.words) = {}
    /\ \E k \in 1..6 :
          ret.analysis.commonFillerCounts[k] = [word |-> tlike, count |-> 1]

\* Non-decreasing start, and no word ends before it starts.
Chronological(words) ==
    \A i \in 1..Len(words) :
        /\ words[i].start <= words[i].end
        /\ i > 1 => words[i - 1].start <= words[i].start

\* C24: for words in chronological order the longPauses records are in
\* chronological order and do not overlap: each has start < end and starts
\* at or after the end of the record before it.
C24_LongPausesOrdered ==
    (Succeeded /\ Chronological(Completed.words)) =>
        LET longPauses == ret.analysis.longPauses
        IN  \A k \in 1..Len(longPauses) :
                /\ longPauses[k].start < longPauses[k].end
                /\ k > 1 => longPauses[k - 1].end <= longPauses[k].start

\* Two pauses, between three words 3 s apart.
C24_Witness ==
    /\ Succeeded
    /\ Chronological(Completed.words)
    /\ Len(Completed.words) = 3
    /\ Len(ret.analysis.longPauses) = 2
    /\ ret.analysis.longPauses[1].end = Completed.words[2].start
    /\ ret.analysis.longPauses[2].start = Completed.words[2].end

\* The requests sent so far.
Sent == outstanding \cup answered

\* The requests go out in the order upload, submit, polls, each after the
\* response to the one before it, a later poll also after the delay, and
\* at most one is outstanding.
RequestsInOrder ==
    /\ Cardinality(outstanding) <= 1
    /\ Request("submit", 0) \in Sent => Request("upload", 0) \in answered
    /\ \A k \in 1..MaxPolls :
          Request("poll", k) \in Sent =>
              /\ Request("submit", 0) \in answered
              /\ k > 1 => (Request("poll", k - 1) \in answered /\ delays >= k - 1)

\* C25: the requests of an invocation are sent in the order upload, submit,
\* polls: submit after the upload response, the first poll after the submit
\* response supplied the job id, a later poll after the response to the one
\* before it and the delay; at most one request is outstanding at any time.
C25_RequestsSequential ==
    /\ RequestsInOrder
    /\ Request("poll", 1) \in Sent => transcriptId /= Undefined

\* C26: under every interleaving of two concurrent invocations each job is
\* polled only by the invocation that submitted it, and each invocation
\* returns what its own job answered: the analysis of its own recording, or
\* null after a failure of its own.
C26_InvocationsIndependent ==
    calls /= <<>> =>
        \A c \in Invocations :
            /\ \A id \in calls[c].polled :
                  JobOf(id) /= 0 => service.jobs[JobOf(id)].by = c
            /\ calls[c].polled \subseteq {calls[c].transcriptId}
            /\ (calls[c].pc = "done" /\ calls[c].caught = NoError)
                  => calls[c].ret = Result(AudioTranscript(c))
            /\ (calls[c].pc = "done" /\ calls[c].caught /= NoError)
                  => calls[c].ret = Null

\* The second invocation submitted first; both returned their own result.
C26_Witness ==
    /\ calls /= <<>>
    /\ calls[1].transcriptId = "job-2"
    /\ calls[2].transcriptId = "job-1"
    /\ calls[1].ret = Result(AudioTranscript(1))
    /\ calls[2].ret = Result(AudioTranscript(2))
    /\ calls[1].polls > 1

\* The call has returned only after a request threw or after a poll
\* response of status `completed` or `error`.
LoopExitJustified ==
    Returned =>
        \/ caught.name = "TypeError"
        \/ /\ responses /= <<>>
           /\ Completed.status \in {"completed", "error"}

\* C28: the polling loop is left only on a poll response of status
\* `completed` or `error` or when a request throws; a response of any other
\* status, or of none, is followed by another poll after the delay.
C28_OnlyTerminalStatusEndsLoop ==
    /\ [](LoopExitJustified)
    /\ [](pc = "sleeping" => Completed.status \notin {"completed", "error"})
    /\ (pc = "sleeping") ~> (pc = "polling")

\* The submit answered no id; the body without status that answers the
\* lookup of `undefined` was followed by another poll.
C28_Witness ==
    /\ pc = "polling"
    /\ transcriptId = Undefined
    /\ polls >= 2
    /\ Completed.status = Undefined
    /\ Completed.error = "Transcript lookup error"

\* The recordings listed on the record screen.
Listed == {screen.recordings[k].uri : k \in 1..Len(screen.recordings)}

\* C29: whatever the interleaving of a pending analysis with deletions and
\* new recordings, the list holds every recording made and not deleted,
\* once, and no deleted one; an analysis is attached to its own recording.
C29_AnalysisKeepsOtherRecordings ==
    screen /= <<>> =>
        /\ Listed = (1..screen.made) \ screen.deleted
        /\ Len(screen.recordings) = Cardinality(Listed)
        /\ \A k \in 1..Len(screen.recordings) :
              screen.recordings[k].analysis.kind = "result"
                  => screen.recordings[k].analysis.of = screen.recordings[k].uri

\* The responses of the session in progress.
CurrentResponses ==
    IF interview.currentSession = Null THEN <<>> ELSE interview.currentSession.responses

\* The answers (by number) that have a response in some session.
Answered(sessionResponses) == {sessionResponses[k].answer : k \in 1..Len(sessionResponses)}

AnsweredSoFar ==
    Answered(CurrentResponses)
        \cup UNION {Answered(interview.pastSessions[k].responses) :
                       k \in 1..Len(interview.pastSessions)}

\* C27: each recorded answer is handed to analyzeAudio exactly once; the
\* content scoring is called only with the text of a speech analysis that
\* did not fail; an answer whose speech analysis failed has no response; a
\* completed session has at least one response and its overall score is
\* the mean of their overall scores rounded to the nearest integer.
C27_InterviewFlow ==
    interview /= <<>> =>
        /\ interview.analysed = [k \in 1..interview.recorded |-> k]
        /\ Len(interview.scored) <= interview.recorded
        /\ interview.awaiting = "content" =>
              /\ interview.speechAnalysis /= Null
              /\ interview.speechAnalysis.kind = "result"
              /\ interview.scored[Len(interview.scored)] = interview.speechAnalysis.text
        /\ Cardinality(AnsweredSoFar) <= Len(interview.scored)
        /\ (interview.awaiting = "none" /\ interview.speechAnalysis = Null)
              => interview.recorded \notin AnsweredSoFar
        /\ \A k \in 1..Len(CurrentResponses) :
              \E j \in 1..Len(interview.scored) :
                  interview.scored[j] = CurrentResponses[k].transcript
        /\ \A k \in 1..Len(interview.pastSessions) :
              LET completed == interview.pastSessions[k]
                  n == Len(completed.responses)
                  sum == SumSeq([j \in 1..n |-> completed.responses[j].overallScore])
              IN  /\ n >= 1
                  /\ 2 * n * completed.overallScore <= 2 * sum + n
                  /\ 2 * sum + n < 2 * n * (completed.overallScore + 1)

\* A session of two questions completed with the scores 67 and 90 (mean
\* 78.5, reported as 79) after one answer whose speech analysis failed.
C27_Witness ==
    /\ interview /= <<>>
    /\ Len(interview.pastSessions) = 1
    /\ Len(interview.pastSessions[1].responses) = 2
    /\ interview.pastSessions[1].responses[1].overallScore = 67
    /\ interview.pastSessions[1].responses[2].overallScore = 90
    /\ interview.pastSessions[1].overallScore = 79
    /\ interview.recorded = 3
    /\ Len(interview.scored) = 2

\* C30: on the interview screen the setup screen, the question modal or the
\* results modal is shown in every reachable state.
C30_SomethingIsShown ==
    interview /= <<>> =>
        \/ interview.showSetup
        \/ interview.showQuestionModal
        \/ interview.showResultsModal

====
